---- MODULE Spec2Model ----
(***************************************************************************)
(* Model of packages/wxt/src/core/utils/building/generate-wxt-dir.ts:      *)
(* generateTypesDir and the seven writers it awaits one after another.     *)
(*                                                                         *)
(* A text is a sequence of tokens.  Every character that matters to the    *)
(* code (a path character, "$", a quote, a separator, a line break) is a   *)
(* token of its own; a fixed piece of a template is one token.  A          *)
(* directory or file location is a sequence of path segments.              *)
(***************************************************************************)
EXTENDS Integers, Sequences, FiniteSets, TLC

\* ------------------------------------------------------------------ bounds
MaxPass == 2
MaxPathLen == 2
MaxAssets == 2
MaxEntrypoints == 1
MaxMessages == 2
MaxTextLen == 2
MaxModules == 2
MaxAliases == 2

\* ------------------------------------------------------------ text helpers
RECURSIVE Concat(_)
Concat(ts) ==
  IF ts = <<>> THEN <<>> ELSE Head(ts) \o Concat(Tail(ts))

\* Array.prototype.join on texts
RECURSIVE Join(_, _)
Join(ts, s) ==
  IF ts = <<>> THEN <<>>
  ELSE IF Len(ts) = 1 THEN ts[1]
  ELSE ts[1] \o s \o Join(Tail(ts), s)

\* String.prototype.split on one token: the pieces of a text between the
\* occurrences of the token (halving keeps the evaluation shallow)
RECURSIVE Split(_, _)
Split(t, tok) ==
  IF t = <<>> THEN << <<>> >>
  ELSE IF Len(t) = 1 THEN (IF t[1] = tok THEN << <<>>, <<>> >> ELSE <<t>>)
  ELSE LET half == Len(t) \div 2
           l == Split(SubSeq(t, 1, half), tok)
           r == Split(SubSeq(t, half + 1, Len(t)), tok)
       IN SubSeq(l, 1, Len(l) - 1) \o << l[Len(l)] \o r[1] >> \o Tail(r)

\* the lines of a text: its pieces between line breaks
Lines(t) == Split(t, "\n")

StartsWith(t, p) == Len(t) >= Len(p) /\ SubSeq(t, 1, Len(p)) = p

EndsWith(t, p) == Len(t) >= Len(p) /\ SubSeq(t, Len(t) - Len(p) + 1, Len(t)) = p

SeqsUpTo(S, n) == UNION {[1..k -> S] : k \in 0..n}

Range(s) == {s[i] : i \in DOMAIN s}

\* the token of the grave accent (the character cannot be written in a string)
Backtick == "U+0060"

\* UTF-16 code unit of a one-character token (what Array.prototype.sort compares)
CharCode(c) ==
  CASE c = " " -> 32
    [] c = "\"" -> 34
    [] c = "$" -> 36
    [] c = "&" -> 38
    [] c = "'" -> 39
    [] c = "." -> 46
    [] c = "/" -> 47
    [] c = "\\" -> 92
    [] c = Backtick -> 96
    [] c = "a" -> 97
    [] c = "b" -> 98
    [] c = "c" -> 99
    [] c = "h" -> 104
    [] c = "j" -> 106
    [] c = "l" -> 108
    [] c = "m" -> 109
    [] c = "s" -> 115
    [] c = "t" -> 116
    [] OTHER -> 0

\* a < b as JavaScript compares strings: code unit by code unit, a proper
\* prefix first
RECURSIVE LexLess(_, _)
LexLess(a, b) ==
  IF a = <<>> THEN b # <<>>
  ELSE IF b = <<>> THEN FALSE
  ELSE IF Head(a) = Head(b) THEN LexLess(Tail(a), Tail(b))
  ELSE CharCode(Head(a)) < CharCode(Head(b))

RECURSIVE InsertSorted(_, _)
InsertSorted(x, s) ==
  IF s = <<>> THEN <<x>>
  ELSE IF LexLess(x, Head(s)) THEN <<x>> \o s
  ELSE <<Head(s)>> \o InsertSorted(x, Tail(s))

\* Array.prototype.sort() with the default comparator
RECURSIVE SortTexts(_)
SortTexts(s) ==
  IF s = <<>> THEN <<>> ELSE InsertSorted(Head(s), SortTexts(Tail(s)))

\* the replacement text of String.prototype.replace with a string pattern and
\* a string replacement: dollar-dollar is one dollar, dollar-ampersand the
\* match, dollar-backtick what precedes the match, dollar-apostrophe what
\* follows it, and any other dollar stands for itself
RECURSIVE GetSubstitution(_, _, _, _)
GetSubstitution(matched, before, after, r) ==
  IF "$" \notin Range(r) THEN r
  ELSE LET k == CHOOSE i \in DOMAIN r : r[i] = "$" /\ \A j \in 1..(i - 1) : r[j] # "$"
           rest == SubSeq(r, k + 1, Len(r))
       IN SubSeq(r, 1, k - 1)
          \o (IF rest # <<>> /\ rest[1] \in {"$", "&", Backtick, "'"}
              THEN (CASE rest[1] = "$" -> <<"$">>
                      [] rest[1] = "&" -> matched
                      [] rest[1] = Backtick -> before
                      [] rest[1] = "'" -> after)
                   \o GetSubstitution(matched, before, after, Tail(rest))
              ELSE <<"$">> \o GetSubstitution(matched, before, after, rest))

\* template.replace(placeholder, replacement): the first occurrence only
StringReplace(template, placeholder, r) ==
  IF placeholder \notin Range(template) THEN template
  ELSE LET i == CHOOSE k \in DOMAIN template :
                  /\ template[k] = placeholder
                  /\ \A j \in 1..(k - 1) : template[j] # placeholder
           before == SubSeq(template, 1, i - 1)
           after == SubSeq(template, i + 1, Len(template))
       IN before \o GetSubstitution(<<placeholder>>, before, after, r) \o after

\* ------------------------------------------------------------ path helpers
\* normalizePath (~/core/utils/paths): every separator becomes "/"
NormalizePath(t) == [i \in DOMAIN t |-> IF t[i] = "\\" THEN "/" ELSE t[i]]

\* path.resolve(dir, name) for an absolute dir and a plain file name
Resolve(dir, name) == Append(dir, name)

RECURSIVE CommonLen(_, _)
CommonLen(a, b) ==
  IF a = <<>> \/ b = <<>> \/ Head(a) # Head(b) THEN 0
  ELSE 1 + CommonLen(Tail(a), Tail(b))

\* path.relative(from, to) on a platform whose separator is sep
Relative(sep, from, to) ==
  LET c == CommonLen(from, to)
      ups == [i \in 1..(Len(from) - c) |-> <<"..">>]
      rest == [i \in 1..(Len(to) - c) |-> <<to[c + i]>>]
  IN Join(ups \o rest, <<sep>>)

\* all ancestors of a location, the location itself included
Ancestors(d) == {SubSeq(d, 1, k) : k \in 0..Len(d)}

Parent(loc) == SubSeq(loc, 1, Len(loc) - 1)

\* ------------------------------------------------------------------ state
VARIABLES
  config,        \* wxt.config, resolved: directories, imports, manifest, modules, alias
  entrypoints,   \* the argument of generateTypesDir
  publicFiles,   \* what getPublicFiles() lists
  catalog,       \* public/_locales/<default_locale>/messages.json
  autoImports,   \* what unimport resolves: the result of getImports()
  fs,            \* the files on disk: location -> text
  dirs,          \* the directories on disk
  pc,            \* the step generateTypesDir is about to run
  references,    \* const references: string[]
  mainReference, \* const mainReference
  trace,         \* the steps this pass has completed, in order
  error,         \* the rejection the caller of generateTypesDir sees
  pass,          \* how many times generateTypesDir has been called
  prevDone,      \* whether the previous call ran to completion
  fsBefore       \* the files on disk when the last step began

inputs == <<config, entrypoints, publicFiles, catalog, autoImports>>

vars == <<config, entrypoints, publicFiles, catalog, autoImports, fs, dirs, pc,
          references, mainReference, trace, error, pass, prevDone, fsBefore>>

\* ---------------------------------------------------------- configuration
Root == <<"p">>

OutBaseDir == <<"p", ".output">>

OutDir == <<"p", ".output", "chrome-mv3">>

PublicDir == <<"p", "public">>

\* wxtDir and typesDir: the default layout, typesDir set to wxtDir itself, and
\* typesDir outside wxtDir
Layouts ==
  { [wxtDir |-> <<"p", ".wxt">>, typesDir |-> <<"p", ".wxt", "types">>],
    [wxtDir |-> <<"p", ".wxt">>, typesDir |-> <<"p", ".wxt">>],
    [wxtDir |-> <<"p", ".wxt">>, typesDir |-> <<"p", "types">>] }

DefaultLayout == [wxtDir |-> <<"p", ".wxt">>, typesDir |-> <<"p", ".wxt", "types">>]

\* the default layout, and wxtDir one directory further down
AliasLayouts ==
  { DefaultLayout,
    [wxtDir |-> <<"p", "sub", ".wxt">>, typesDir |-> <<"p", "sub", ".wxt", "types">>] }

\* imports.eslintrc.filePath: the default, a path of the user's in a directory
\* that does not exist, and paths of the user's that are also a declaration
\* file's
LintPaths(l) ==
  { Resolve(l.wxtDir, "eslintrc-auto-import.json"),
    <<"p", "lint", "globals.json">>,
    Resolve(l.typesDir, "imports.d.ts"),
    Resolve(l.typesDir, "i18n.d.ts") }

ImportsOff == [enabled |-> FALSE,
               eslintrc |-> [enabled |-> FALSE, filePath |-> <<>>, globalsPropValue |-> "true"]]

ImportsOptions(l) ==
  {ImportsOff}
  \cup {[enabled |-> TRUE,
         eslintrc |-> [enabled |-> FALSE,
                       filePath |-> Resolve(l.wxtDir, "eslintrc-auto-import.json"),
                       globalsPropValue |-> "true"]]}
  \cup {[enabled |-> TRUE,
         eslintrc |-> [enabled |-> TRUE, filePath |-> f, globalsPropValue |-> "true"]] :
          f \in LintPaths(l)}

ModuleSet ==
  [id : {"mod-a", "mod-b"}, type : {"node_module", "local"},
   configKey : {"null", "undefined", "key"}]

SomeModules ==
  << [id |-> "mod-a", type |-> "node_module", configKey |-> "key"],
     [id |-> "mod-b", type |-> "local", configKey |-> "key"] >>

AliasNames == {"@", "~", "#"}

\* a directory of the project, wxtDir itself, a directory outside the project
AliasTargets == {<<"p", "src">>, <<"p", ".wxt">>, <<"q", "lib">>}

\* Object.entries(wxt.config.alias): the keys of an object are distinct
AliasTables(n) ==
  {t \in SeqsUpTo([alias : AliasNames, path : AliasTargets], n) :
     \A i, j \in DOMAIN t : i # j => t[i].alias # t[j].alias}

SomeAlias == << [alias |-> "@", path |-> <<"p", "src">>] >>

Configs(Seps, Ls, Locales, Mods, Aliases) ==
  UNION { [sep : Seps, wxtDir : {l.wxtDir}, typesDir : {l.typesDir},
           imports : ImportsOptions(l), default_locale : Locales,
           modules : Mods, alias : Aliases] : l \in Ls }

\* ------------------------------------------------------------------ inputs
PathChars == {"a", " ", "$", "'", "\\"}

Texts(chars, n) == SeqsUpTo(chars, n) \ {<<>>}

EntrypointSet == [name : {<<"a">>, <<"a", " ">>}, html : BOOLEAN]

MessageChars == {"a", "$"}

\* one entry of a catalog: "key": { "message": ..., "description": ... }
\* (an absent description is the empty text)
CatalogEntrySet ==
  [key : {<<"a">>, <<"b">>},
   value : [message : Texts(MessageChars, MaxTextLen), description : {<<>>, <<"a">>}]]

\* a catalog file: absent, not JSON, or the JSON of an object (its entries in
\* the order of the file, its keys distinct)
Catalogs(n) ==
  {[state |-> "missing", entries |-> <<>>], [state |-> "malformed", entries |-> <<>>]}
  \cup {[state |-> "json", entries |-> c] :
          c \in {c \in SeqsUpTo(CatalogEntrySet, n) :
                   \A i, j \in DOMAIN c : i # j => c[i].key # c[j].key}}

SomeCatalog ==
  [state |-> "json",
   entries |-> << [key |-> <<"a">>,
                    value |-> [message |-> <<"a">>, description |-> <<"a">>]] >>]

\* getImports(): each import has a name and may have an alias ("as")
SomeImports ==
  << [name |-> <<"b">>, hasAs |-> FALSE, as |-> <<>>],
     [name |-> <<"c">>, hasAs |-> TRUE, as |-> <<"a">>],
     [name |-> <<"c">>, hasAs |-> TRUE, as |-> <<>>] >>

\* --------------------------------------------------------------- rendering
\* unimport.generateTypeDeclarations()
GenerateTypeDeclarations ==
  Join(<< <<"export {}">>, <<"declare global {">> >>
       \o [i \in DOMAIN autoImports |->
             <<"  const ">> \o (IF autoImports[i].hasAs
                                THEN autoImports[i].as ELSE autoImports[i].name)
             \o <<": typeof import">>]
       \o << <<"}">> >>,
       <<"\n">>)

ImportsFilePath == Resolve(config.typesDir, "imports.d.ts")

ImportsDeclarationText ==
  Join(<< <<"// Generated by wxt">>, GenerateTypeDeclarations >>, <<"\n">>) \o <<"\n">>

\* consecutive duplicates dropped: a key assigned twice is one key of the object
RECURSIVE Distinct(_)
Distinct(s) ==
  IF Len(s) <= 1 THEN s
  ELSE IF s[1] = s[2] THEN Distinct(Tail(s))
  ELSE <<s[1]>> \o Distinct(Tail(s))

\* (await unimport.getImports()).map((i) => i.as ?? i.name).filter(Boolean).sort()
EslintGlobalNames ==
  LET names == [i \in DOMAIN autoImports |->
                  IF autoImports[i].hasAs THEN autoImports[i].as ELSE autoImports[i].name]
  IN SortTexts(SelectSeq(names, LAMBDA n : n # <<>>))

EslintFilePath == config.imports.eslintrc.filePath

\* JSON.stringify({ globals }, null, 2) + "\n", as fs.writeJson writes it
EslintText ==
  LET keys == Distinct(EslintGlobalNames)
      members == [i \in DOMAIN keys |->
                    <<"    \"">> \o keys[i] \o <<"\": ", config.imports.eslintrc.globalsPropValue>>]
  IN IF keys = <<>> THEN <<"{", "\n", "  \"globals\": {}", "\n", "}", "\n">>
     ELSE <<"{", "\n", "  \"globals\": {", "\n">> \o Join(members, <<",", "\n">>)
          \o <<"\n", "  }", "\n", "}", "\n">>

\* isHtmlEntrypoint(entry) ? '.html' : '.js'
ExtOf(entry) ==
  IF entry.html THEN <<".", "h", "t", "m", "l">> ELSE <<".", "j", "s">>

\* getEntrypointBundlePath(entry, outDir, ext): the entrypoint's output file,
\* relative to outDir
GetEntrypointBundlePath(entry, ext) == entry.name \o ext

MemberPrefix == "    | \"/"

NeverMember == "    | never"

PathsFilePath == Resolve(config.typesDir, "paths.d.ts")

PathsHead ==
  << "// Generated by wxt", "\n",
     "import \"wxt/browser\";", "\n",
     "\n",
     "declare module \"wxt/browser\" {", "\n",
     "  export type PublicPath =", "\n" >>

\* (the grave accents of the template are left out of the tokens' names)
PathsTail ==
  << "\n",
     "  type HtmlPublicPath = Extract<PublicPath, ${string}.html>", "\n",
     "  export interface WxtRuntime extends Runtime.Static {", "\n",
     "    getURL(path: PublicPath): string;", "\n",
     "    getURL(path: ${HtmlPublicPath}${string}): string;", "\n",
     "  }", "\n",
     "}", "\n" >>

PathsTemplate == PathsHead \o <<"{{ union }}">> \o PathsTail

\* one member of the union: (path) => `    | "/${path}"`
UnionMember(path) == <<MemberPrefix>> \o path \o <<"\"">>

\* entrypoints.map(bundle path).concat(await getPublicFiles())
PublicPaths ==
  [i \in DOMAIN entrypoints |->
     GetEntrypointBundlePath(entrypoints[i], ExtOf(entrypoints[i]))]
  \o publicFiles

PathsUnions ==
  Join(SortTexts([i \in DOMAIN PublicPaths |-> UnionMember(NormalizePath(PublicPaths[i]))]),
       <<"\n">>)

PathsDeclarationText ==
  StringReplace(PathsTemplate, "{{ union }}",
                IF PathsUnions = <<>> THEN <<NeverMember>> ELSE PathsUnions)

I18nFilePath == Resolve(config.typesDir, "i18n.d.ts")

I18nHead ==
  << "// Generated by wxt", "\n",
     "import \"wxt/browser\";", "\n",
     "\n",
     "declare module \"wxt/browser\" {", "\n",
     "  /**", "\n",
     "   * See https://developer.chrome.com/docs/extensions/reference/i18n/#method-getMessage", "\n",
     "   */", "\n",
     "  interface GetMessageOptions {", "\n",
     "    /**", "\n",
     "     * See https://developer.chrome.com/docs/extensions/reference/i18n/#method-getMessage", "\n",
     "     */", "\n",
     "    escapeLt?: boolean", "\n",
     "  }", "\n",
     "\n",
     "  export interface WxtI18n extends I18n.Static {", "\n" >>

I18nTail == << "\n", "  }", "\n", "}", "\n" >>

I18nTemplate == I18nHead \o <<"{{ overrides }}">> \o I18nTail

\* parseI18nMessages(content): one descriptor per entry of the catalog,
\* ([name, details]) => ({ name, ...details })
ParseI18nMessages(entries) ==
  [i \in DOMAIN entries |->
     [name |-> entries[i].key, message |-> entries[i].value.message,
      description |-> entries[i].value.description]]

\* the overload rendered for one message
Override(message) ==
  << "    /**", "\n", "     * " >>
  \o (IF message.description # <<>> THEN message.description
      ELSE <<"No message description.">>)
  \o << "\n", "     *", "\n", "     * \"" >> \o message.message
  \o << "\"", "\n", "     */", "\n", "    getMessage(", "\n", "      messageName: \"" >>
  \o message.name
  \o << "\",", "\n", "      substitutions?: string | string[],", "\n",
        "      options?: GetMessageOptions,", "\n", "    ): string;" >>

\* let messages: the catalog's when a default locale is configured
Messages ==
  IF config.default_locale # "" THEN ParseI18nMessages(catalog.entries)
  ELSE ParseI18nMessages(<<>>)

I18nDeclarationText ==
  StringReplace(I18nTemplate, "{{ overrides }}",
                Join([i \in DOMAIN Messages |-> Override(Messages[i])], <<"\n">>))

GlobalsFilePath == Resolve(config.typesDir, "globals.d.ts")

\* getGlobals(wxt.config)
GetGlobals ==
  << [name |-> "MANIFEST_VERSION", type |-> "2 | 3"],
     [name |-> "BROWSER", type |-> "string"] >>

\* getEntrypointGlobals('')
GetEntrypointGlobals == << [name |-> "ENTRYPOINT", type |-> "string"] >>

GlobalsDeclarationText ==
  LET globals == GetGlobals \o GetEntrypointGlobals
  IN Join(<< <<"// Generated by wxt">>, <<"export {}">>, <<"interface ImportMetaEnv {">> >>
          \o [i \in DOMAIN globals |->
                <<"  readonly ", globals[i].name, ": ", globals[i].type, ";">>]
          \o << <<"}">>, <<"interface ImportMeta {">>, <<"  readonly env: ImportMetaEnv">>,
                <<"}">> >>,
          <<"\n">>)
     \o <<"\n">>

\* the root file under the name of the file written just before it
MainFilePathMisnamed == Resolve(config.wxtDir, "globals.d.ts")

MainFilePath == Resolve(config.wxtDir, "wxt.d.ts")

RefPrefix == "/// <reference types=\"./"

ModulePrefix == "/// <reference types=\""

RefSuffix == "\" />"

\* the same without normalizePath
ReferenceLineAsRelativeGivesIt(ref) ==
  <<RefPrefix>> \o Relative(config.sep, config.wxtDir, ref) \o <<RefSuffix>>

\* (ref) => /// <reference types="./${normalizePath(relative(dir, ref))}" />
ReferenceLine(ref) ==
  <<RefPrefix>> \o NormalizePath(Relative(config.sep, config.wxtDir, ref)) \o <<RefSuffix>>

\* the same with !== null, which lets an undefined key through
NeedsReferenceStrictNull(module) ==
  /\ module.type = "node_module"
  /\ module.configKey # "null"

\* (module) => module.type === 'node_module' && module.configKey != null
NeedsReference(module) ==
  /\ module.type = "node_module"
  /\ module.configKey \notin {"null", "undefined"}

ModuleLine(module) == <<ModulePrefix, module.id, RefSuffix>>

ModuleLines ==
  LET kept == SelectSeq(config.modules, NeedsReference)
  IN [i \in DOMAIN kept |-> ModuleLine(kept[i])]

MainDeclarationText(refs) ==
  Join(<< <<"// Generated by wxt">>, <<"/// <reference types=\"wxt/vite-builder-env\" />">> >>
       \o [i \in DOMAIN refs |-> ReferenceLine(refs[i])]
       \o ModuleLines,
       <<"\n">>)
  \o <<"\n">>

TsConfigFilePath == Resolve(config.wxtDir, "tsconfig.json")

\* the same relative to the project root instead of wxtDir
GetTsconfigPathFromRoot(path) == NormalizePath(Relative(config.sep, Root, path))

\* const getTsconfigPath = (path) => normalizePath(relative(dir, path))
GetTsconfigPath(path) == NormalizePath(Relative(config.sep, config.wxtDir, path))

TsConfigHead ==
  << "{", "\n",
     "  \"compilerOptions\": {", "\n",
     "    \"target\": \"ESNext\",", "\n",
     "    \"module\": \"ESNext\",", "\n",
     "    \"moduleResolution\": \"Bundler\",", "\n",
     "    \"noEmit\": true,", "\n",
     "    \"esModuleInterop\": true,", "\n",
     "    \"forceConsistentCasingInFileNames\": true,", "\n",
     "    \"resolveJsonModule\": true,", "\n",
     "    \"strict\": true,", "\n",
     "    \"skipLibCheck\": true,", "\n",
     "    \"paths\": {", "\n" >>

\* the two entries of one alias
AliasEntries(a) ==
  LET aliasPath == GetTsconfigPath(a.path)
  IN << <<"      \"", a.alias, "\": [\"">> \o aliasPath \o <<"\"]">>,
        <<"      \"", a.alias, "/*", "\": [\"">> \o aliasPath \o <<"/*", "\"]">> >>

TsConfigPaths ==
  Join(Concat([i \in DOMAIN config.alias |-> AliasEntries(config.alias[i])]),
       <<",", "\n">>)

TsConfigText(mainRef) ==
  TsConfigHead \o TsConfigPaths
  \o << "\n", "    }", "\n", "  },", "\n", "  \"include\": [", "\n", "    \"" >>
  \o GetTsconfigPath(Root) \o << "/**/*", "\",", "\n", "    \"./" >>
  \o GetTsconfigPath(mainRef) \o << "\"", "\n", "  ],", "\n", "  \"exclude\": [\"" >>
  \o GetTsconfigPath(OutBaseDir) \o << "\"]", "\n", "}" >>

\* -------------------------------------------------------------- the steps
Steps == {"ensureDir", "imports", "eslint", "paths", "i18n", "globals", "main", "tsconfig"}

\* the same with the root file written before globals.d.ts
StepAfterMainHoisted(step) ==
  CASE step = "ensureDir" -> IF config.imports.enabled THEN "imports" ELSE "paths"
    [] step = "imports" -> IF config.imports.eslintrc.enabled THEN "eslint" ELSE "paths"
    [] step = "eslint" -> "paths"
    [] step = "paths" -> "i18n"
    [] step = "i18n" -> "main"
    [] step = "main" -> "globals"
    [] step = "globals" -> "tsconfig"
    [] step = "tsconfig" -> "done"

\* generateTypesDir: the step it awaits after a step has completed
StepAfter(step) ==
  CASE step = "ensureDir" -> IF config.imports.enabled THEN "imports" ELSE "paths"
    [] step = "imports" -> IF config.imports.eslintrc.enabled THEN "eslint" ELSE "paths"
    [] step = "eslint" -> "paths"
    [] step = "paths" -> "i18n"
    [] step = "i18n" -> "globals"
    [] step = "globals" -> "main"
    [] step = "main" -> "tsconfig"
    [] step = "tsconfig" -> "done"

\* the file a step writes
TargetOf(step) ==
  CASE step = "imports" -> ImportsFilePath
    [] step = "eslint" -> EslintFilePath
    [] step = "paths" -> PathsFilePath
    [] step = "i18n" -> I18nFilePath
    [] step = "globals" -> GlobalsFilePath
    [] step = "main" -> MainFilePath
    [] step = "tsconfig" -> TsConfigFilePath

FsWith(loc, text) ==
  [l \in (DOMAIN fs) \cup {loc} |-> IF l = loc THEN text ELSE fs[l]]

\* writeFileIfDifferent(file, newContents) writes when the file is absent or
\* holds something else
FileDiffers(loc, text) == loc \notin DOMAIN fs \/ fs[loc] # text

\* a step completes: its file is written (or found up to date) and
\* generateTypesDir goes on to the next step
Completes(step, loc, text, written, madeDirs) ==
  /\ fs' = IF written THEN FsWith(loc, text) ELSE fs
  /\ dirs' = dirs \cup madeDirs
  /\ trace' = Append(trace, [step |-> step, loc |-> loc, text |-> text, written |-> written])
  /\ pc' = StepAfter(step)
  /\ fsBefore' = fs
  /\ UNCHANGED error

\* the same with the rejection caught and the pass going on
RejectsCaught(step, e) ==
  /\ pc' = StepAfter(step)
  /\ error' = [step |-> step, kind |-> e]
  /\ fsBefore' = fs
  /\ UNCHANGED <<fs, dirs, trace, references, mainReference>>

\* an await rejects: nothing catches it, generateTypesDir rejects with it
Rejects(step, e) ==
  /\ pc' = "failed"
  /\ error' = [step |-> step, kind |-> e]
  /\ fsBefore' = fs
  /\ UNCHANGED <<fs, dirs, trace, references, mainReference>>

NoError == [step |-> "none", kind |-> "none"]

\* await fs.ensureDir(wxt.config.typesDir)
EnsureDir ==
  /\ pc = "ensureDir"
  /\ \E ok \in BOOLEAN :
       IF ok
       THEN /\ dirs' = dirs \cup Ancestors(config.typesDir)
            /\ pc' = StepAfter("ensureDir")
            /\ fsBefore' = fs
            /\ UNCHANGED <<fs, trace, error, references, mainReference>>
       ELSE Rejects("ensureDir", "io")
  /\ UNCHANGED <<inputs, pass, prevDone>>

\* a writer that ends in writeFileIfDifferent(loc, text)
WritesIfDifferent(step, loc, text) ==
  \E ok \in BOOLEAN :
    IF ok THEN Completes(step, loc, text, FileDiffers(loc, text), Ancestors(Parent(loc)))
    ELSE Rejects(step, "io")

WriteImportsDeclarationFile ==
  /\ pc = "imports"
  /\ WritesIfDifferent("imports", ImportsFilePath, ImportsDeclarationText)
  /\ (pc' # "failed" =>
        /\ references' = Append(references, ImportsFilePath)
        /\ UNCHANGED mainReference)
  /\ UNCHANGED <<inputs, pass, prevDone>>

\* fs.writeJson(options.eslintrc.filePath, eslintrc, { spaces: 2 }): the file
\* is written whatever it holds, and its directory is not created
WriteImportsEslintFile ==
  /\ pc = "eslint"
  /\ \E ok \in BOOLEAN :
       IF ok /\ Parent(EslintFilePath) \in dirs
       THEN /\ Completes("eslint", EslintFilePath, EslintText, TRUE, {})
            /\ UNCHANGED <<references, mainReference>>
       ELSE Rejects("eslint", IF Parent(EslintFilePath) \in dirs THEN "io" ELSE "ENOENT")
  /\ UNCHANGED <<inputs, pass, prevDone>>

WritePathsDeclarationFile ==
  /\ pc = "paths"
  /\ WritesIfDifferent("paths", PathsFilePath, PathsDeclarationText)
  /\ (pc' # "failed" =>
        /\ references' = Append(references, PathsFilePath)
        /\ UNCHANGED mainReference)
  /\ UNCHANGED <<inputs, pass, prevDone>>

\* the catalog is read and parsed before anything is written
WriteI18nDeclarationFile ==
  /\ pc = "i18n"
  /\ IF config.default_locale # "" /\ catalog.state = "missing"
       THEN Rejects("i18n", "ENOENT")
     ELSE IF config.default_locale # "" /\ catalog.state = "malformed"
       THEN Rejects("i18n", "SyntaxError")
     ELSE /\ WritesIfDifferent("i18n", I18nFilePath, I18nDeclarationText)
          /\ (pc' # "failed" =>
                /\ references' = Append(references, I18nFilePath)
                /\ UNCHANGED mainReference)
  /\ UNCHANGED <<inputs, pass, prevDone>>

WriteGlobalsDeclarationFile ==
  /\ pc = "globals"
  /\ WritesIfDifferent("globals", GlobalsFilePath, GlobalsDeclarationText)
  /\ (pc' # "failed" =>
        /\ references' = Append(references, GlobalsFilePath)
        /\ UNCHANGED mainReference)
  /\ UNCHANGED <<inputs, pass, prevDone>>

WriteMainDeclarationFile ==
  /\ pc = "main"
  /\ WritesIfDifferent("main", MainFilePath, MainDeclarationText(references))
  /\ (pc' # "failed" =>
        /\ mainReference' = MainFilePath
        /\ UNCHANGED references)
  /\ UNCHANGED <<inputs, pass, prevDone>>

WriteTsConfigFile ==
  /\ pc = "tsconfig"
  /\ WritesIfDifferent("tsconfig", TsConfigFilePath, TsConfigText(mainReference))
  /\ (pc' # "failed" => UNCHANGED <<references, mainReference>>)
  /\ UNCHANGED <<inputs, pass, prevDone>>

\* the caller calls generateTypesDir again (a rebuild, or a retry after a
\* rejection) with the same inputs
GenerateTypesDirAgain ==
  /\ pc \in {"done", "failed"}
  /\ pass < MaxPass
  /\ pass' = pass + 1
  /\ prevDone' = (pc = "done")
  /\ pc' = "ensureDir"
  /\ references' = <<>>
  /\ mainReference' = <<>>
  /\ trace' = <<>>
  /\ error' = NoError
  /\ fsBefore' = fs
  /\ UNCHANGED <<inputs, fs, dirs>>

Pipeline ==
  \/ EnsureDir
  \/ WriteImportsDeclarationFile
  \/ WriteImportsEslintFile
  \/ WritePathsDeclarationFile
  \/ WriteI18nDeclarationFile
  \/ WriteGlobalsDeclarationFile
  \/ WriteMainDeclarationFile
  \/ WriteTsConfigFile

Next == Pipeline \/ GenerateTypesDirAgain

\* the state after construction: nothing generated yet, the first call begun
InitWith(Cfgs, Eps, Assets, Cats, Imports) ==
  /\ config \in Cfgs
  /\ entrypoints \in Eps
  /\ publicFiles \in Assets
  /\ catalog \in Cats
  /\ autoImports \in Imports
  /\ fs = << >>
  /\ dirs = Ancestors(Root) \cup Ancestors(PublicDir)
  /\ pc = "ensureDir"
  /\ references = <<>>
  /\ mainReference = <<>>
  /\ trace = <<>>
  /\ error = NoError
  /\ pass = 1
  /\ prevDone = FALSE
  /\ fsBefore = << >>

Init ==
  InitWith(Configs({"/", "\\"}, Layouts, {"", "en"}, {SomeModules}, {SomeAlias}),
           {<<>>, << [name |-> <<"a">>, html |-> TRUE] >>},
           {<< <<"a", ".", "a">> >>},
           Catalogs(0) \cup {SomeCatalog},
           {SomeImports})

Spec == Init /\ [][Next]_vars

\* ------------------------------------------------------ reading files back
StepsRun == [i \in DOMAIN trace |-> trace[i].step]

HasRun(step) == \E i \in DOMAIN trace : trace[i].step = step

\* where a relative path leads from a directory
RECURSIVE Follow(_, _)
Follow(dir, segs) ==
  IF segs = <<>> THEN dir
  ELSE IF Head(segs) = <<>> THEN Follow(dir, Tail(segs))
  ELSE IF Head(segs) = <<"..">> THEN Follow(Parent(dir), Tail(segs))
  ELSE Follow(dir \o Head(segs), Tail(segs))

\* a relative path with "/" separators, followed from wxtDir
LeadsTo(rel) == Follow(config.wxtDir, Split(rel, "/"))

IsNormalized(t) == "\\" \notin Range(t)

\* the declaration files generateTypesDir generates, in generation order
GeneratedDeclarations ==
  (IF config.imports.enabled THEN <<Resolve(config.typesDir, "imports.d.ts")>> ELSE <<>>)
  \o << Resolve(config.typesDir, "paths.d.ts"), Resolve(config.typesDir, "i18n.d.ts"),
        Resolve(config.typesDir, "globals.d.ts") >>

ExpectedOrder ==
  (IF config.imports.enabled THEN <<"imports">> ELSE <<>>)
  \o (IF config.imports.enabled /\ config.imports.eslintrc.enabled THEN <<"eslint">> ELSE <<>>)
  \o <<"paths", "i18n", "globals", "main", "tsconfig">>

\* ------------------------------------------------------------------ claims

\* C1 (as stated): after a call that ran to completion, a second call with the
\* same configuration, entrypoints, public assets and catalog writes no file,
\* whatever the configuration.
C1_SecondRunWritesNothing ==
  (pass >= 2 /\ prevDone) =>
    /\ \A i \in DOMAIN trace : ~trace[i].written
    /\ pc \in {"done", "failed"} => fs = fsBefore

\* C1: with the lint-globals file disabled the second call does write nothing
C1_SecondRunWritesNothingWithoutLintFile ==
  (pass >= 2 /\ prevDone /\ ~config.imports.eslintrc.enabled) =>
    \A i \in DOMAIN trace : ~trace[i].written

\* C1: a second call that ran to completion with auto-imports enabled and the
\* lint-globals file disabled
C1_Witness ==
  /\ pass = 2 /\ prevDone /\ pc = "done"
  /\ config.imports.enabled /\ ~config.imports.eslintrc.enabled

\* C2 (as stated): when a step fails the caller sees the error, the files are
\* as they were when the failing step began, no later step has run, every file
\* an earlier step wrote holds what that step wrote, and after a catalog
\* failure i18n.d.ts, globals.d.ts, wxt.d.ts and tsconfig.json have not been
\* written in the pass.
C2_AbortAsStated ==
  (error # NoError) =>
    /\ pc = "failed"
    /\ fs = fsBefore
    /\ ~HasRun(error.step)
    /\ StepsRun = SubSeq(ExpectedOrder, 1, Len(trace))
    /\ \A i \in DOMAIN trace :
         trace[i].loc \in DOMAIN fs /\ fs[trace[i].loc] = trace[i].text
    /\ (error.step = "i18n" /\ error.kind \in {"ENOENT", "SyntaxError"}) =>
         \A i \in DOMAIN trace :
           trace[i].written =>
             trace[i].loc \notin {I18nFilePath, GlobalsFilePath, MainFilePath, TsConfigFilePath}

\* C2 (amended): when a step fails the caller sees the error, the files are as
\* they were when the failing step began, no later step has run, every file an
\* earlier step wrote holds what the last earlier step aimed at it wrote, and
\* after a catalog failure none of the i18n, globals, root-file and
\* project-file steps has run, so only the lint-globals step can have written
\* one of their files.
C2_AbortLeavesEarlierWrites ==
  (error # NoError) =>
    /\ pc = "failed"
    /\ fs = fsBefore
    /\ ~HasRun(error.step)
    /\ StepsRun = SubSeq(ExpectedOrder, 1, Len(trace))
    /\ \A i \in DOMAIN trace :
         (\A j \in DOMAIN trace : j > i => trace[j].loc # trace[i].loc) =>
           trace[i].loc \in DOMAIN fs /\ fs[trace[i].loc] = trace[i].text
    /\ (error.step = "i18n" /\ error.kind \in {"ENOENT", "SyntaxError"}) =>
         /\ \A i \in DOMAIN trace : trace[i].step \notin {"i18n", "globals", "main", "tsconfig"}
         /\ \A i \in DOMAIN trace :
              (trace[i].written /\ trace[i].step # "eslint") =>
                trace[i].loc \notin {I18nFilePath, GlobalsFilePath, MainFilePath, TsConfigFilePath}

\* a malformed catalog stops a pass that had already written imports.d.ts and
\* paths.d.ts
C2_Witness ==
  /\ pc = "failed"
  /\ error = [step |-> "i18n", kind |-> "SyntaxError"]
  /\ \E i \in DOMAIN trace : trace[i].step = "paths" /\ trace[i].written
  /\ HasRun("imports")

\* C8: the steps of a pass run in the order imports, lint-globals, paths,
\* localization, globals, root declaration file, project file, each after the
\* one before it has completed; the root file comes after every generator and
\* tsconfig.json comes last.
C8_StepsRunInFixedOrder ==
  /\ StepsRun = SubSeq(ExpectedOrder, 1, Len(trace))
  /\ pc \in Steps \ {"ensureDir"} =>
       Len(trace) < Len(ExpectedOrder) /\ pc = ExpectedOrder[Len(trace) + 1]
  /\ pc = "done" => StepsRun = ExpectedOrder
  /\ \A i, j \in DOMAIN trace :
       (trace[i].step = "main" /\ trace[j].step \in {"imports", "eslint", "paths", "i18n", "globals"})
         => j < i
  /\ \A i \in DOMAIN trace : trace[i].step = "tsconfig" => i = Len(trace)

C8_Witness ==
  /\ pc = "done"
  /\ config.imports.enabled /\ config.imports.eslintrc.enabled
  /\ StepsRun = <<"imports", "eslint", "paths", "i18n", "globals", "main", "tsconfig">>

\* the files the reference directives of wxt.d.ts name
MainReferenceLines ==
  SelectSeq(Lines(fs[MainFilePath]), LAMBDA l : l # <<>> /\ l[1] = RefPrefix)

ReferencedPath(line) == SubSeq(line, 2, Len(line) - 1)

ReferencedFiles ==
  [i \in DOMAIN MainReferenceLines |-> LeadsTo(ReferencedPath(MainReferenceLines[i]))]

ReferencesWellFormed ==
  /\ ReferencedFiles = GeneratedDeclarations
  /\ \A i \in DOMAIN MainReferenceLines :
       /\ IsNormalized(MainReferenceLines[i])
       /\ MainReferenceLines[i][Len(MainReferenceLines[i])] = RefSuffix

\* C9 (as stated): wxt.d.ts references each generated declaration file once,
\* in generation order, by a normalized path relative to its own directory;
\* imports.d.ts first and only when auto-imports are enabled; the lint-globals
\* file is never among the files referenced.
C9_ReferencesAsStated ==
  HasRun("main") =>
    /\ ReferencesWellFormed
    /\ config.imports.eslintrc.enabled =>
         \A i \in DOMAIN ReferencedFiles : ReferencedFiles[i] # EslintFilePath

\* C9 (amended): wxt.d.ts references each generated declaration file once, in
\* generation order, by a normalized path relative to its own directory;
\* imports.d.ts first and only when auto-imports are enabled; the lint-globals
\* step adds no reference of its own.
C9_ReferencesGeneratedDeclarations ==
  HasRun("main") => ReferencesWellFormed

\* typesDir outside wxtDir on a platform whose separator is the backslash
C9_Witness ==
  /\ HasRun("main")
  /\ config.sep = "\\"
  /\ config.typesDir = <<"p", "types">>
  /\ config.imports.enabled
  /\ Len(MainReferenceLines) = Len(GeneratedDeclarations)

\* C10 (as stated): no two steps of a pass aim at the same file, whatever the
\* lint-globals path, typesDir and wxtDir are.
C10_TargetsDistinctAsStated ==
  \A i, j \in DOMAIN trace : i # j => trace[i].loc # trace[j].loc

\* C10 (amended): imports.d.ts, paths.d.ts, i18n.d.ts, globals.d.ts, wxt.d.ts
\* and tsconfig.json are pairwise distinct for every typesDir and wxtDir; the
\* lint-globals file is where the configuration puts it.
C10_FixedTargetsDistinct ==
  \A i, j \in DOMAIN trace :
    (i # j /\ trace[i].step # "eslint" /\ trace[j].step # "eslint") =>
      trace[i].loc # trace[j].loc

\* all six written into one directory
C10_Witness ==
  /\ pc = "done"
  /\ config.typesDir = config.wxtDir
  /\ config.imports.enabled
  /\ ~config.imports.eslintrc.enabled
  /\ Cardinality({trace[i].loc : i \in DOMAIN trace}) = Len(ExpectedOrder)
  /\ \A i \in DOMAIN trace : trace[i].loc \in DOMAIN fs /\ Parent(trace[i].loc) = config.wxtDir

\* ------------------------------------------- one pass over many inputs
\* auto-imports off, or on with the lint-globals file at its default path
UsualImports(c) ==
  ~c.imports.enabled
  \/ /\ c.imports.eslintrc.enabled
     /\ c.imports.eslintrc.filePath = Resolve(c.wxtDir, "eslintrc-auto-import.json")

PlainConfigs(Mods, Aliases) ==
  {c \in Configs({"/", "\\"}, {DefaultLayout}, {"en"}, Mods, Aliases) : UsualImports(c)}

\* every list of entrypoints and public assets
InitPaths ==
  InitWith({c \in PlainConfigs({SomeModules}, {SomeAlias}) : c.sep = "/"},
           SeqsUpTo(EntrypointSet, MaxEntrypoints),
           SeqsUpTo(Texts(PathChars, MaxPathLen), MaxAssets),
           {SomeCatalog},
           {SomeImports})

SpecPaths == InitPaths /\ [][Pipeline]_vars

\* every default-locale catalog
InitI18n ==
  InitWith({c \in Configs({"/"}, {DefaultLayout}, {"", "en"}, {SomeModules}, {SomeAlias}) :
              UsualImports(c)},
           {<<>>},
           {<<>>},
           Catalogs(MaxMessages),
           {SomeImports})

SpecI18n == InitI18n /\ [][Pipeline]_vars

\* every list of installed modules
InitModules ==
  InitWith(PlainConfigs(SeqsUpTo(ModuleSet, MaxModules), {SomeAlias}),
           {<<>>},
           {<<>>},
           {SomeCatalog},
           {SomeImports})

SpecModules == InitModules /\ [][Pipeline]_vars

\* every alias table, for two places of wxtDir
InitAlias ==
  InitWith({c \in Configs({"/", "\\"}, AliasLayouts, {"en"}, {SomeModules}, AliasTables(MaxAliases)) :
              UsualImports(c)},
           {<<>>},
           {<<>>},
           {SomeCatalog},
           {SomeImports})

SpecAlias == InitAlias /\ [][Pipeline]_vars

\* what stands in paths.d.ts between the head and the tail of the template
PathsFileText == fs[PathsFilePath]

UnionText ==
  SubSeq(PathsFileText, Len(PathsHead) + 1, Len(PathsFileText) - Len(PathsTail))

UnionLines == Lines(UnionText)

\* the path a member line quotes
MemberPath(line) == SubSeq(line, 2, Len(line) - 1)

IsQuotedLiteral(line) ==
  /\ Len(line) >= 2
  /\ line[1] = MemberPrefix
  /\ line[Len(line)] = "\""
  /\ \A k \in 2..(Len(line) - 1) : line[k] \in (PathChars \cup {"/", ".", "h", "t", "m", "l", "j", "s"})

NormalizedPublicPaths == [i \in DOMAIN PublicPaths |-> NormalizePath(PublicPaths[i])]

Count(x, s) == Cardinality({i \in DOMAIN s : s[i] = x})

\* C3 (as stated): the union of paths.d.ts has exactly one member per entrypoint
\* output path and per public asset, duplicates kept, each the normalized path
\* quoted and prefixed with "/", in lexicographic order of the paths.
C3_UnionListsEveryPathInOrder ==
  (HasRun("paths") /\ PublicPaths # <<>>) =>
    /\ StartsWith(PathsFileText, PathsHead)
    /\ EndsWith(PathsFileText, PathsTail)
    /\ Len(UnionLines) = Len(PublicPaths)
    /\ \A i \in DOMAIN UnionLines : IsQuotedLiteral(UnionLines[i])
    /\ \A i \in DOMAIN NormalizedPublicPaths :
         Count(NormalizedPublicPaths[i], NormalizedPublicPaths)
           = Count(UnionMember(NormalizedPublicPaths[i]), UnionLines)
    /\ \A i, j \in DOMAIN UnionLines :
         i < j => ~LexLess(MemberPath(UnionLines[j]), MemberPath(UnionLines[i]))

\* C3: the members are there and in order when no path holds a "$" and none
\* holds a character below the closing quote
C3_UnionOfPlainPaths ==
  (HasRun("paths") /\ PublicPaths # <<>>
     /\ \A i \in DOMAIN PublicPaths : Range(PublicPaths[i]) \cap {"$", " "} = {}) =>
    /\ Len(UnionLines) = Len(PublicPaths)
    /\ \A i \in DOMAIN NormalizedPublicPaths :
         Count(NormalizedPublicPaths[i], NormalizedPublicPaths)
           = Count(UnionMember(NormalizedPublicPaths[i]), UnionLines)
    /\ \A i, j \in DOMAIN UnionLines :
         i < j => ~LexLess(MemberPath(UnionLines[j]), MemberPath(UnionLines[i]))

\* C4 (as stated): the union is the single member never exactly when there is
\* no entrypoint and no public asset; otherwise it holds quoted path literals
\* only, and no never.
C4_NeverExactlyWhenEmpty ==
  HasRun("paths") =>
    /\ StartsWith(PathsFileText, PathsHead)
    /\ EndsWith(PathsFileText, PathsTail)
    /\ (PublicPaths = <<>>) <=> (UnionText = <<NeverMember>>)
    /\ PublicPaths # <<>> =>
         /\ NeverMember \notin Range(PathsFileText)
         /\ \A i \in DOMAIN UnionLines : IsQuotedLiteral(UnionLines[i])

\* C4: never appears exactly when there is nothing to list
C4_NeverMemberExactlyWhenEmpty ==
  HasRun("paths") =>
    ((PublicPaths = <<>>) <=> (NeverMember \in Range(PathsFileText)))

\* C7 (as stated): i18n.d.ts holds one getMessage overload per parsed message,
\* in the parser's order, with the message's name as the messageName literal
\* and the description and the literal text unchanged in the documentation;
\* none without a default locale or with an empty catalog.
C7_OneOverloadPerMessage ==
  HasRun("i18n") =>
    /\ fs[I18nFilePath]
         = I18nHead \o Join([i \in DOMAIN Messages |-> Override(Messages[i])], <<"\n">>)
           \o I18nTail
    /\ (config.default_locale = "" \/ catalog.entries = <<>>) =>
         fs[I18nFilePath] = I18nHead \o I18nTail

\* C7: so it is for the catalogs whose texts hold no "$"
C7_OneOverloadPerPlainMessage ==
  (HasRun("i18n") /\ \A i \in DOMAIN Messages : "$" \notin Range(Messages[i].message)) =>
    fs[I18nFilePath]
      = I18nHead \o Join([i \in DOMAIN Messages |-> Override(Messages[i])], <<"\n">>)
        \o I18nTail

\* the module references of wxt.d.ts: the ids its module directives name
MainModuleLines ==
  SelectSeq(Lines(fs[MainFilePath]), LAMBDA l : l # <<>> /\ l[1] = ModulePrefix)

ReferencedModules == [i \in DOMAIN MainModuleLines |-> MainModuleLines[i][2]]

\* the modules installed from a package that declare a configuration key
ExternalModulesWithKey ==
  SelectSeq(config.modules, LAMBDA m : m.type = "node_module" /\ m.configKey = "key")

\* C5: wxt.d.ts holds a module reference for a module if and only if the
\* module is externally installed and its configuration key is neither null
\* nor undefined, once per such module, in the order of the module list.
C5_ModuleReferences ==
  HasRun("main") =>
    /\ ReferencedModules = [i \in DOMAIN ExternalModulesWithKey |-> ExternalModulesWithKey[i].id]
    /\ \A i \in DOMAIN MainModuleLines : MainModuleLines[i] = <<ModulePrefix, ReferencedModules[i], RefSuffix>>

\* an external module with a key, one with an undefined key and a local one
C5_Witness ==
  /\ HasRun("main")
  /\ \E i, j \in DOMAIN config.modules :
       /\ config.modules[i].type = "node_module" /\ config.modules[i].configKey = "undefined"
       /\ config.modules[j].type = "node_module" /\ config.modules[j].configKey = "key"
  /\ Len(ReferencedModules) = 1

\* the lines of tsconfig.json between "paths": { and its closing brace
TsConfigLines == Lines(fs[TsConfigFilePath])

TsHeadCount == Len(Lines(TsConfigHead)) - 1

TsTailCount == Len(Lines(TsConfigText(MainFilePath))) - Len(Lines(TsConfigHead \o TsConfigPaths))

PathsMapLines ==
  SelectSeq(SubSeq(TsConfigLines, TsHeadCount + 1, Len(TsConfigLines) - TsTailCount),
            LAMBDA l : l # <<>>)

\* a line of the map without the comma that separates it from the next
Entry(line) == IF line[Len(line)] = "," THEN SubSeq(line, 1, Len(line) - 1) ELSE line

\* "alias": ["rel"] with rel a normalized relative path leading to target
IsBareEntry(e, alias, target) ==
  /\ Len(e) >= 4
  /\ SubSeq(e, 1, 3) = <<"      \"", alias, "\": [\"">>
  /\ e[Len(e)] = "\"]"
  /\ IsNormalized(e)
  /\ LeadsTo(SubSeq(e, 4, Len(e) - 1)) = target

\* "alias/*": ["rel/*"] with the same rel
IsWildcardEntry(e, alias, bare) ==
  e = <<"      \"", alias, "/*", "\": [\"">> \o SubSeq(bare, 4, Len(bare) - 1) \o <<"/*", "\"]">>

\* C6: for an alias table of n entries the paths map of tsconfig.json has 2n
\* entries, the bare alias and alias/* for each alias, the first naming the
\* alias's directory by a normalized path relative to wxtDir, the second that
\* path followed by /*; include and exclude are relative to wxtDir too.
C6_TwoEntriesPerAlias ==
  HasRun("tsconfig") =>
    /\ Len(PathsMapLines) = 2 * Len(config.alias)
    /\ \A i \in DOMAIN config.alias :
         /\ IsBareEntry(Entry(PathsMapLines[2 * i - 1]), config.alias[i].alias, config.alias[i].path)
         /\ IsWildcardEntry(Entry(PathsMapLines[2 * i]), config.alias[i].alias,
                            Entry(PathsMapLines[2 * i - 1]))
    /\ LET n == Len(TsConfigLines)
           include1 == TsConfigLines[n - 4]
           include2 == TsConfigLines[n - 3]
           exclude == TsConfigLines[n - 1]
       IN /\ include1[1] = "    \"" /\ SubSeq(include1, Len(include1) - 1, Len(include1)) = <<"/**/*", "\",">>
          /\ IsNormalized(include1)
          /\ LeadsTo(SubSeq(include1, 2, Len(include1) - 2)) = Root
          /\ include2[1] = "    \"./" /\ include2[Len(include2)] = "\""
          /\ IsNormalized(include2)
          /\ LeadsTo(SubSeq(include2, 2, Len(include2) - 1)) = MainFilePath
          /\ exclude[1] = "  \"exclude\": [\"" /\ exclude[Len(exclude)] = "\"]"
          /\ IsNormalized(exclude)
          /\ LeadsTo(SubSeq(exclude, 2, Len(exclude) - 1)) = OutBaseDir

\* two aliases, one of them outside the project, on a backslash platform
C6_Witness ==
  /\ HasRun("tsconfig")
  /\ config.sep = "\\"
  /\ Len(config.alias) = 2
  /\ \E i \in DOMAIN config.alias : config.alias[i].path = <<"q", "lib">>
  /\ Len(PathsMapLines) = 4

====
